---- MODULE Spec2Model ----
(***************************************************************************)
(* CardCounter: the Blackjack round engine.                                *)
(*                                                                         *)
(*   Card.js       RANKS, SUITS, createCard, isAce                         *)
(*   Deck.js       the shoe: burn, draw, reshuffle, discard, needsReshuffle*)
(*   Hand.js       evaluate, isBusted, isBlackjack, canSplit, split, ...   *)
(*   Dealer.js     dealInitial, hit, playDealerHand, shouldDealerHit       *)
(*   Evaluator.js  compareHands, settleRound                               *)
(*   GameState.js  the round state machine (placeBets, playerHit, ...)     *)
(*                                                                         *)
(* A card is modelled by its rank symbol: the engine reads only card.rank  *)
(* and card.value (suit and id are read by the view's formatCard alone).   *)
(* A shuffled pile is modelled by the bag of its cards, the card at its    *)
(* front being chosen when it is taken (see fisherYatesShuffle).           *)
(* Indices of hands are 0-based as in the source; a TLA+ sequence is       *)
(* 1-based, so hand number i is playerHands[i + 1].                        *)
(* Payout multipliers are kept doubled (payoutX2, netX2) so that the       *)
(* 3:2 payout 1.5 is the integer 3.                                        *)
(***************************************************************************)
EXTENDS Integers, Sequences, FiniteSets, Bags, TLC

\* ---------------------------------------------------------------- bounds

\* Seats a caller may bet for in one placeBets call.
MaxSeats == 1

\* Largest wager of one seat.
MaxBet == 1

\* Successful placeBets calls in one behaviour.
MaxRounds == 2

\* Longest card sequence handed to evaluate in SpecEval.
MaxEvalLen == 4

\* Longest hand handed to compareHands in SpecCmp.
MaxCmpLen == 3

\* The largest count given to burn and draw, and the most cards given to
\* discard in one call, in SpecShoe.
MaxShoeCount == 2

\* Seats of the placeBets calls of SpecDeal: enough to ask the shoe for more
\* cards than it holds (2 * MaxDealSeats + 2 is beyond the cards of FullShoe).
MaxDealSeats == 4

\* Seats of the placeBets calls of SpecTable.
MaxTableSeats == 2

\* Most player hands given to settleRound in SpecSettle.
MaxSettleHands == 2

\* Largest bet of a hand given to settleRound in SpecSettle.
MaxSettleBet == 2

\* ------------------------------------------------------- Card.js

\* The rank symbols of RANKS.
RankSymbols == {"A", "2", "3", "4", "5", "6", "7", "8", "9", "10", "J", "Q", "K"}

\* card.value: Ace = 11, face cards = 10, else the rank number.
CardValue(c) ==
  CASE c = "A" -> 11
    [] c = "2" -> 2
    [] c = "3" -> 3
    [] c = "4" -> 4
    [] c = "5" -> 5
    [] c = "6" -> 6
    [] c = "7" -> 7
    [] c = "8" -> 8
    [] c = "9" -> 9
    [] c = "10" -> 10
    [] c = "J" -> 10
    [] c = "Q" -> 10
    [] c = "K" -> 10

isAce(c) == c = "A"

\* The ranks and suits the modelled shoe is built from: a reduced deck
\* (the source builds 13 ranks x 4 suits) that still holds naturals (A, K),
\* pairs to split, busts (K, K, 5), soft 17 (A, 5, A) and hard 17 (K, 5, 2).
RANKS == <<"A", "K", "5", "2">>

SUITS == <<"Hearts", "Diamonds">>

createCard(rank, suit) == rank

\* ------------------------------------------------------- Hand.js

RECURSIVE SumValues(_)
SumValues(cards) ==
  IF cards = <<>> THEN 0 ELSE CardValue(Head(cards)) + SumValues(Tail(cards))

RECURSIVE CountAces(_)
CountAces(cards) ==
  IF cards = <<>> THEN 0
  ELSE (IF isAce(Head(cards)) THEN 1 ELSE 0) + CountAces(Tail(cards))

\* Mutant of ReduceAces: an if in place of the while, one ace reduced at most.
ReduceAces_Once(total, aces) ==
  IF total > 21 /\ aces > 0 THEN [total |-> total - 10, soft |-> aces - 1 > 0]
  ELSE [total |-> total, soft |-> aces > 0]

\* while (total > 21 && aces > 0) { total -= 10; aces--; }
RECURSIVE ReduceAces(_, _)
ReduceAces(total, aces) ==
  IF total > 21 /\ aces > 0 THEN ReduceAces(total - 10, aces - 1)
  ELSE [total |-> total, soft |-> aces > 0]

evaluate(cards) == ReduceAces(SumValues(cards), CountAces(cards))

createHand(isDealerHand, bet) ==
  [cards |-> <<>>, bet |-> bet, settled |-> FALSE, isDealerHand |-> isDealerHand]

addCards(hand, newCards) == [hand EXCEPT !.cards = @ \o newCards]

total(hand) == evaluate(hand.cards).total

isSoft(hand) == evaluate(hand.cards).soft

\* Mutant of isBusted: a total of exactly 21 counts as a bust.
isBusted_At21(hand) == total(hand) >= 21

isBusted(hand) == total(hand) > 21

isBlackjack(hand) == Len(hand.cards) = 2 /\ total(hand) = 21

\* Mutant of canSplit: the ranks are not compared.
canSplit_AnyTwoCards(hand) == Len(hand.cards) = 2

canSplit(hand) == Len(hand.cards) = 2 /\ hand.cards[1] = hand.cards[2]

canDoubleDown(hand) == Len(hand.cards) = 2

\* split(): two new hands with the original bet, one card of the pair each.
split(hand) ==
  << addCards(createHand(FALSE, hand.bet), <<hand.cards[1]>>),
     addCards(createHand(FALSE, hand.bet), <<hand.cards[2]>>) >>

settle(hand) == [hand EXCEPT !.settled = TRUE]

\* Mutant of isSettled: only the flag set by settle() counts.
isSettled_FlagOnly(hand) == hand.settled

isSettled(hand) == hand.settled \/ isBusted(hand) \/ isBlackjack(hand)

\* Mutant of doubleBet: the wager is doubled twice.
doubleBet_Twice(hand) == [hand EXCEPT !.bet = @ * 2 * 2]

doubleBet(hand) == [hand EXCEPT !.bet = @ * 2]

\* ------------------------------------------------------- Deck.js

\* createGame(opts): the demo's configuration (numDecks 1, penetration 0.75,
\* the latter kept as a percentage).
numDecks == 1

PenetrationPct == 75

RECURSIVE RepeatSeq(_, _)
RepeatSeq(s, n) == IF n = 0 THEN <<>> ELSE s \o RepeatSeq(s, n - 1)

\* for (rank of RANKS) for (suit of SUITS) cards.push(createCard(rank, suit))
buildSingleDeck ==
  LET ns == Len(SUITS)
  IN  [k \in 1..(Len(RANKS) * ns) |->
         createCard(RANKS[((k - 1) \div ns) + 1], SUITS[((k - 1) % ns) + 1])]

\* Every card of the shoe, in build order (reset, before the shuffle).
FullShoe == RepeatSeq(buildSingleDeck, numDecks)

RECURSIVE SeqToBag(_)
SeqToBag(s) ==
  IF s = <<>> THEN EmptyBag ELSE SetToBag({Head(s)}) (+) SeqToBag(Tail(s))

\* Fisher-Yates with Math.random: arr ends in any of its permutations, and
\* nothing reads the order of a shuffled pile but cards.splice(0, count),
\* which takes its front away.  The pile is therefore kept as the bag of its
\* cards, and the permutation is chosen card by card as the front is taken
\* (splice0): any card of the pile may be the one at the front.  The discard
\* pile is read by reshuffle alone, which shuffles it into the live cards, so
\* it is kept as the bag of its cards too.
fisherYatesShuffle(arr) == SeqToBag(arr)

\* cards.splice(0, count) on a shuffled pile: the outcomes [taken, rest].
RECURSIVE splice0(_, _)
splice0(pile, count) ==
  IF count = 0 \/ pile = EmptyBag THEN {[taken |-> <<>>, rest |-> pile]}
  ELSE UNION {{[taken |-> <<c>> \o r.taken, rest |-> r.rest] :
                 r \in splice0(pile (-) SetToBag({c}), count - 1)} :
              c \in BagToSet(pile)}

\* History kept with the shoe (not a field of the code): what each burn, draw
\* and discard of the public action in progress was asked for and did.  count
\* is the argument, cards the cards moved, reshuffled whether a draw
\* reshuffled first, avail the live cards a draw found after any reshuffle.
ShoeOp(op, count, moved, reshuffled, avail) ==
  [op |-> op, count |-> count, cards |-> moved, reshuffled |-> reshuffled,
   avail |-> avail]

\* reset(): the shoe after building and shuffling.
reset ==
  [cards |-> fisherYatesShuffle(FullShoe), discardPile |-> EmptyBag,
   totalCards |-> Len(FullShoe), log |-> <<>>]

remaining(shoe) == BagCardinality(shoe.cards)

\* burn(count): cards.splice(0, count) goes to the discard pile.
burn(shoe, count) ==
  {[shoe EXCEPT !.cards = r.rest, !.discardPile = @ (+) SeqToBag(r.taken),
                !.log = Append(@, ShoeOp("burn", count, r.taken, FALSE,
                                         BagCardinality(shoe.cards)))] :
     r \in splice0(shoe.cards, count)}

\* Mutant of needsReshuffle: the threshold itself does not trigger.
needsReshuffle_Below(shoe) ==
  remaining(shoe) < (shoe.totalCards * (100 - PenetrationPct)) \div 100

\* cards.length <= Math.floor(totalCards * (1 - penetration))
needsReshuffle(shoe) ==
  remaining(shoe) <= (shoe.totalCards * (100 - PenetrationPct)) \div 100

\* reshuffle(): the discard pile joins the live cards, which are shuffled.
reshuffle(shoe) ==
  [cards |-> shoe.cards (+) shoe.discardPile,
   discardPile |-> EmptyBag,
   totalCards |-> BagCardinality(shoe.cards (+) shoe.discardPile),
   log |-> shoe.log]

\* Mutant of draw: the shoe is never reshuffled.
draw_NoReshuffle(shoe, count) ==
  {[shoe |-> [shoe EXCEPT !.cards = r.rest,
                          !.log = Append(@, ShoeOp("draw", count, r.taken, FALSE,
                                                   BagCardinality(shoe.cards)))],
    drawn |-> r.taken] :
     r \in splice0(shoe.cards, count)}

\* draw(count): the outcomes [shoe, drawn] of one call.
draw(shoe, count) ==
  LET s == IF needsReshuffle(shoe) THEN reshuffle(shoe) ELSE shoe
  IN  {[shoe |-> [s EXCEPT !.cards = r.rest,
                           !.log = Append(@, ShoeOp("draw", count, r.taken,
                                                    needsReshuffle(shoe),
                                                    BagCardinality(s.cards)))],
        drawn |-> r.taken] :
         r \in splice0(s.cards, count)}

\* discard(...cards)
discard(shoe, discardedCards) ==
  [shoe EXCEPT !.discardPile = @ (+) SeqToBag(discardedCards),
               !.log = Append(@, ShoeOp("discard", Len(discardedCards),
                                        discardedCards, FALSE,
                                        BagCardinality(shoe.cards)))]

\* ------------------------------------------------------- Dealer.js

burnCard(shoe) == burn(shoe, 1)

discardCards(shoe, cs) == discard(shoe, cs)

\* The seats served by the two passes: players 1..n then the dealer (0), twice.
DealOrder(n) == [k \in 1..(2 * n + 2) |-> IF k % (n + 1) = 0 THEN 0 ELSE k % (n + 1)]

\* The deal of dealInitial after the burn: hand.addCards(...shoe.draw(1)) for
\* each seat of `order` in turn.  d = [shoe, playerHands, dealerHand].
RECURSIVE DealPasses(_, _)
DealPasses(d, order) ==
  IF order = <<>> THEN {d}
  ELSE UNION {
         DealPasses(
           IF Head(order) = 0
           THEN [d EXCEPT !.shoe = r.shoe,
                          !.dealerHand = addCards(@, r.drawn)]
           ELSE [d EXCEPT !.shoe = r.shoe,
                          !.playerHands[Head(order)] = addCards(@, r.drawn)],
           Tail(order)) : r \in draw(d.shoe, 1)}

\* dealInitial(numPlayers, bets): burn one card, create the hands, deal.
dealInitial(shoe, numPlayers, bets) ==
  UNION {DealPasses([shoe        |-> burned,
                     playerHands |-> [i \in 1..numPlayers |-> createHand(FALSE, bets[i])],
                     dealerHand  |-> createHand(TRUE, 0)],
                    DealOrder(numPlayers)) : burned \in burnCard(shoe)}

\* hit(hand): the outcomes [shoe, hand, card] of drawing one card into hand;
\* card is <<>> when the shoe yields nothing.
hit(shoe, hand) ==
  {[shoe |-> r.shoe, hand |-> addCards(hand, r.drawn), card |-> r.drawn] :
     r \in draw(shoe, 1)}

\* Mutant of shouldDealerHit: a soft 17 is hit whatever the option says.
shouldDealerHit_Soft17Always(hand, hitsSoft17) ==
  LET v == evaluate(hand.cards)
  IN  \/ v.total < 17
      \/ v.total = 17 /\ v.soft

shouldDealerHit(hand, hitsSoft17) ==
  LET v == evaluate(hand.cards)
  IN  \/ v.total < 17
      \/ v.total = 17 /\ v.soft /\ hitsSoft17

\* ------------------------------------------------------- Evaluator.js

\* Mutant of compareHands: the dealer's bust is looked at before the player's.
compareHands_DealerBustFirst(playerHand, dealerHand) ==
  LET pTotal == total(playerHand)
      dTotal == total(dealerHand)
  IN  IF isBusted(dealerHand) THEN [outcome |-> "DEALER_BUST", payoutX2 |-> 2]
      ELSE IF isBusted(playerHand) THEN [outcome |-> "LOSE", payoutX2 |-> -2]
      ELSE IF isBlackjack(playerHand)
      THEN IF isBlackjack(dealerHand) THEN [outcome |-> "PUSH", payoutX2 |-> 0]
           ELSE [outcome |-> "BLACKJACK", payoutX2 |-> 3]
      ELSE IF pTotal > dTotal THEN [outcome |-> "WIN", payoutX2 |-> 2]
      ELSE IF pTotal < dTotal THEN [outcome |-> "LOSE", payoutX2 |-> -2]
      ELSE [outcome |-> "PUSH", payoutX2 |-> 0]

compareHands(playerHand, dealerHand) ==
  LET pTotal == total(playerHand)
      dTotal == total(dealerHand)
  IN  IF isBusted(playerHand) THEN [outcome |-> "LOSE", payoutX2 |-> -2]
      ELSE IF isBlackjack(playerHand)
      THEN IF isBlackjack(dealerHand) THEN [outcome |-> "PUSH", payoutX2 |-> 0]
           ELSE [outcome |-> "BLACKJACK", payoutX2 |-> 3]
      ELSE IF isBusted(dealerHand) THEN [outcome |-> "DEALER_BUST", payoutX2 |-> 2]
      ELSE IF pTotal > dTotal THEN [outcome |-> "WIN", payoutX2 |-> 2]
      ELSE IF pTotal < dTotal THEN [outcome |-> "LOSE", payoutX2 |-> -2]
      ELSE [outcome |-> "PUSH", payoutX2 |-> 0]

\* Mutant of settleRound: net is the payout, whatever the bet.
settleRound_NetWithoutBet(hands, dealerHand) ==
  [i \in 1..Len(hands) |->
     LET r == compareHands(hands[i], dealerHand)
     IN  [hand     |-> i - 1,
          outcome  |-> r.outcome,
          payoutX2 |-> r.payoutX2,
          netX2    |-> r.payoutX2]]

\* settleRound: one result per player hand, in order; hand is the hand's index.
settleRound(hands, dealerHand) ==
  [i \in 1..Len(hands) |->
     LET r == compareHands(hands[i], dealerHand)
     IN  [hand     |-> i - 1,
          outcome  |-> r.outcome,
          payoutX2 |-> r.payoutX2,
          netX2    |-> hands[i].bet * r.payoutX2]]

\* ------------------------------------------------------- GameState.js

VARIABLES
  state,            \* State.*: the round machine's state
  playerHands,      \* sequence of hands
  dealerHand,       \* <<>> for null, <<hand>> otherwise
  activeHandIdx,    \* 0-based index of the hand that is acting
  results,          \* filled by settle()
  shoe,             \* the dealer's shoe: [cards, discardPile, totalCards, log]
  dealerHitsSoft17, \* opts.dealerHitsSoft17
  pc,               \* "idle" between calls, "playDealerHand" inside its loop
  lastCall,         \* the public action called last: [op, nbets]
  error,            \* whether that call threw
  events,           \* what that call has emitted so far, in order
  trace,            \* the successive values of state since the round began
  fromSplit,        \* per player hand: was it created by playerSplit
  wagers,           \* per player hand: the bet placed for the seat it stems from
  dealerIters,      \* iterations of playDealerHand's loop in this round
  rounds,           \* successful placeBets calls so far
  fnPlayer,         \* SpecEval / SpecCmp / SpecSettle: the function's argument
  fnDealer,         \* SpecCmp / SpecSettle: the dealer's cards / hand
  fnOut,            \* <<>> or <<the function's result>>
  held              \* SpecShoe: the cards drawn and not yet discarded, a bag

gameVars == <<state, playerHands, dealerHand, activeHandIdx, results, shoe>>

histVars == <<pc, lastCall, error, events, trace, fromSplit, wagers, dealerIters, rounds>>

fnVars == <<fnPlayer, fnDealer, fnOut, held>>

vars == <<gameVars, dealerHitsSoft17, histVars, fnVars>>

State == {"BETTING", "DEALING", "PLAYER_TURN", "DEALER_TURN", "SETTLEMENT", "GAME_OVER"}

\* The engine's fields as a public action finds them, with what the action
\* has emitted and done to the shoe so far: nothing yet.
Game ==
  [state |-> state, playerHands |-> playerHands, dealerHand |-> dealerHand,
   activeHandIdx |-> activeHandIdx, results |-> results,
   shoe |-> [shoe EXCEPT !.log = <<>>],
   pc |-> pc, events |-> <<>>, trace |-> trace, fromSplit |-> fromSplit,
   wagers |-> wagers, dealerIters |-> dealerIters]

Install(g) ==
  /\ state' = g.state
  /\ playerHands' = g.playerHands
  /\ dealerHand' = g.dealerHand
  /\ activeHandIdx' = g.activeHandIdx
  /\ results' = g.results
  /\ shoe' = g.shoe
  /\ pc' = g.pc
  /\ events' = g.events
  /\ trace' = g.trace
  /\ fromSplit' = g.fromSplit
  /\ wagers' = g.wagers
  /\ dealerIters' = g.dealerIters

\* What a listener finds when it is called: the state, the number of cards
\* of each hand, and (history) how many discard calls the action has made.
Seen(g) ==
  [state    |-> g.state,
   cards    |-> [i \in 1..Len(g.playerHands) |-> Len(g.playerHands[i].cards)],
   dealer   |-> IF g.dealerHand = <<>> THEN 0 ELSE Len(g.dealerHand[1].cards),
   discards |-> Len(SelectSeq(g.shoe.log, LAMBDA e : e.op = "discard"))]

Event(g, name, st, idx) == [ev |-> name, st |-> st, idx |-> idx, seen |-> Seen(g)]

\* emit(event, data): the listeners run synchronously, before emit returns.
emit(g, name, st, idx) == [g EXCEPT !.events = Append(@, Event(g, name, st, idx))]

\* state = s; emit('stateChange', state)
setState(g, s) ==
  emit([g EXCEPT !.state = s,
                 !.trace = IF @[Len(@)] = s THEN @ ELSE Append(@, s)],
       "stateChange", s, -1)

getActiveHand(g) == g.playerHands[g.activeHandIdx + 1]

RECURSIVE Flatten(_)
Flatten(hands) ==
  IF hands = <<>> THEN <<>> ELSE Head(hands).cards \o Flatten(Tail(hands))

\* Mutant of Settle: the dealer's cards are not returned to the discard pile.
Settle_DealerCardsKept(g) ==
  LET g1 == emit([g EXCEPT !.results = settleRound(g.playerHands, g.dealerHand[1])],
                 "settlement", "", -1)
  IN  setState([g1 EXCEPT !.shoe = discardCards(@, Flatten(g1.playerHands))], "GAME_OVER")

\* Mutant of Settle: the settlement event is emitted last, after the cards
\* went to the discard pile and the state became GAME_OVER.
Settle_EmitLast(g) ==
  LET g1 == [g EXCEPT !.results = settleRound(g.playerHands, g.dealerHand[1])]
      allCards == Flatten(g1.playerHands) \o g1.dealerHand[1].cards
  IN  emit(setState([g1 EXCEPT !.shoe = discardCards(@, allCards)], "GAME_OVER"),
           "settlement", "", -1)

\* settle(): results, the settlement event, every card to the discard pile,
\* GAME_OVER.
Settle(g) ==
  LET g1 == emit([g EXCEPT !.results = settleRound(g.playerHands, g.dealerHand[1])],
                 "settlement", "", -1)
      allCards == Flatten(g1.playerHands) \o g1.dealerHand[1].cards
  IN  setState([g1 EXCEPT !.shoe = discardCards(@, allCards)], "GAME_OVER")

\* Mutant of beginDealerTurn: the dealer plays even when every player hand
\* is busted.
beginDealerTurn_AlwaysPlays(g) ==
  [emit(setState(g, "DEALER_TURN"), "dealerReveal", "", -1) EXCEPT !.pc = "playDealerHand"]

\* beginDealerTurn() up to the call of playDealerHand, or to its end when
\* every player hand is busted.
beginDealerTurn(g) ==
  LET allBusted == \A i \in 1..Len(g.playerHands) : isBusted(g.playerHands[i])
      g1 == setState(g, "DEALER_TURN")
  IN  IF ~allBusted
      THEN [emit(g1, "dealerReveal", "", -1) EXCEPT !.pc = "playDealerHand"]
      ELSE Settle(setState([g1 EXCEPT !.dealerHand[1] = settle(@)], "SETTLEMENT"))

\* Mutant of SkipFrom: no hand is skipped.
SkipFrom_None(hands, idx) == idx

\* while (activeHandIdx < playerHands.length && playerHands[activeHandIdx].isSettled())
RECURSIVE SkipFrom(_, _)
SkipFrom(hands, idx) ==
  IF idx < Len(hands) /\ isSettled(hands[idx + 1]) THEN SkipFrom(hands, idx + 1)
  ELSE idx

skipSettledHands(g) ==
  LET g1 == [g EXCEPT !.activeHandIdx = SkipFrom(g.playerHands, @)]
  IN  IF g1.activeHandIdx >= Len(g1.playerHands) THEN beginDealerTurn(g1)
      ELSE emit(g1, "activeHandChange", "", g1.activeHandIdx)

advanceHand(g) == skipSettledHands([g EXCEPT !.activeHandIdx = @ + 1])

\* nbets is bets.length for placeBets, 0 for the actions without arguments;
\* bets is the argument of a placeBets that went on to deal.
Call(op, nbets) == [op |-> op, nbets |-> nbets, bets |-> <<>>]

\* A call that returns normally / that throws before changing anything.
Return(call, g) ==
  /\ Install(g)
  /\ lastCall' = call
  /\ error' = FALSE

Throw(call) ==
  /\ Install([Game EXCEPT !.shoe = shoe])
  /\ lastCall' = call
  /\ error' = TRUE
  /\ UNCHANGED rounds

\* The bet sequences a caller passes to placeBets.
BetSeqs == UNION {[1..n -> 1..MaxBet] : n \in 0..MaxSeats}

\* Mutant of AfterDeal: the dealer's natural is not checked.
AfterDeal_NoDealerCheck(g) ==
  IF \A i \in 1..Len(g.playerHands) : isBlackjack(g.playerHands[i])
  THEN Settle(setState(g, "SETTLEMENT"))
  ELSE skipSettledHands(setState(g, "PLAYER_TURN"))

\* Mutant of AfterDeal: the players' naturals are not checked.
AfterDeal_PlayersNotChecked(g) ==
  IF isBlackjack(g.dealerHand[1]) THEN Settle(setState(g, "SETTLEMENT"))
  ELSE skipSettledHands(setState(g, "PLAYER_TURN"))

\* placeBets after the deal: dealer natural, all players natural, or PLAYER_TURN.
AfterDeal(g) ==
  IF isBlackjack(g.dealerHand[1]) THEN Settle(setState(g, "SETTLEMENT"))
  ELSE IF \A i \in 1..Len(g.playerHands) : isBlackjack(g.playerHands[i])
  THEN Settle(setState(g, "SETTLEMENT"))
  ELSE skipSettledHands(setState(g, "PLAYER_TURN"))

\* Mutant of canBet: a bet is also taken when the round is over.
canBet_OrGameOver == state \in {"BETTING", "GAME_OVER"}

\* The state checks that open the public actions.
canBet == state = "BETTING"

canAct == state = "PLAYER_TURN"

placeBets(bets) ==
  /\ pc = "idle"
  /\ IF ~canBet THEN Throw(Call("placeBets", Len(bets)))
     ELSE IF Len(bets) = 0 THEN Throw(Call("placeBets", Len(bets)))
     ELSE /\ rounds < MaxRounds
          /\ rounds' = rounds + 1
          /\ \E d \in dealInitial(Game.shoe, Len(bets), bets) :
               LET g0 == emit([Game EXCEPT !.state = "DEALING", !.trace = <<"DEALING">>],
                              "stateChange", "DEALING", -1)
                   g1 == [g0 EXCEPT !.shoe = d.shoe,
                                    !.playerHands = d.playerHands,
                                    !.dealerHand = <<d.dealerHand>>,
                                    !.activeHandIdx = 0,
                                    !.results = <<>>,
                                    !.fromSplit = [i \in 1..Len(bets) |-> FALSE],
                                    !.wagers = bets,
                                    !.dealerIters = 0]
               IN  Return([Call("placeBets", Len(bets)) EXCEPT !.bets = bets],
                          AfterDeal(emit(g1, "dealt", "", -1)))
  /\ UNCHANGED <<dealerHitsSoft17, fnVars>>

playerHit ==
  /\ pc = "idle"
  /\ IF ~canAct THEN Throw(Call("playerHit", 0))
     ELSE /\ \E r \in hit(Game.shoe, getActiveHand(Game)) :
               LET g1 == emit([Game EXCEPT !.shoe = r.shoe,
                                           !.playerHands[activeHandIdx + 1] = r.hand],
                              "playerHit", "", activeHandIdx)
               IN  IF isBusted(r.hand)
                   THEN Return(Call("playerHit", 0),
                          advanceHand(emit(
                            [g1 EXCEPT !.playerHands[activeHandIdx + 1] = settle(@)],
                            "playerBust", "", activeHandIdx)))
                   ELSE Return(Call("playerHit", 0), g1)
          /\ UNCHANGED rounds
  /\ UNCHANGED <<dealerHitsSoft17, fnVars>>

playerStand ==
  /\ pc = "idle"
  /\ IF ~canAct THEN Throw(Call("playerStand", 0))
     ELSE /\ Return(Call("playerStand", 0),
               advanceHand(emit(
                 [Game EXCEPT !.playerHands[activeHandIdx + 1] = settle(@)],
                 "playerStand", "", activeHandIdx)))
          /\ UNCHANGED rounds
  /\ UNCHANGED <<dealerHitsSoft17, fnVars>>

playerDoubleDown ==
  /\ pc = "idle"
  /\ IF ~canAct THEN Throw(Call("playerDoubleDown", 0))
     ELSE IF ~canDoubleDown(getActiveHand(Game)) THEN Throw(Call("playerDoubleDown", 0))
     ELSE /\ \E r \in hit(Game.shoe, doubleBet(getActiveHand(Game))) :
               LET g1 == emit([Game EXCEPT !.shoe = r.shoe,
                                           !.playerHands[activeHandIdx + 1] = settle(r.hand)],
                              "playerDouble", "", activeHandIdx)
               IN  Return(Call("playerDoubleDown", 0),
                     advanceHand(IF isBusted(r.hand)
                                 THEN emit(g1, "playerBust", "", activeHandIdx)
                                 ELSE g1))
          /\ UNCHANGED rounds
  /\ UNCHANGED <<dealerHitsSoft17, fnVars>>

\* playerHands.splice(activeHandIdx, 1, handA, handB)
Splice(s, idx, a, b) == SubSeq(s, 1, idx) \o <<a, b>> \o SubSeq(s, idx + 2, Len(s))

playerSplit ==
  /\ pc = "idle"
  /\ IF ~canAct THEN Throw(Call("playerSplit", 0))
     ELSE IF ~canSplit(getActiveHand(Game)) THEN Throw(Call("playerSplit", 0))
     ELSE /\ \E rA \in hit(Game.shoe, split(getActiveHand(Game))[1]) :
             \E rB \in hit(rA.shoe, split(getActiveHand(Game))[2]) :
               Return(Call("playerSplit", 0),
                 skipSettledHands(emit(
                   [Game EXCEPT !.shoe = rB.shoe,
                                !.playerHands = Splice(@, activeHandIdx, rA.hand, rB.hand),
                                !.fromSplit = Splice(@, activeHandIdx, TRUE, TRUE),
                                !.wagers = Splice(@, activeHandIdx,
                                                  wagers[activeHandIdx + 1],
                                                  wagers[activeHandIdx + 1])],
                   "playerSplit", "", activeHandIdx)))
          /\ UNCHANGED rounds
  /\ UNCHANGED <<dealerHitsSoft17, fnVars>>

\* newRound(): no check of the current state.
newRound ==
  /\ pc = "idle"
  /\ Return(Call("newRound", 0),
       setState([Game EXCEPT !.playerHands = <<>>,
                             !.dealerHand = <<>>,
                             !.activeHandIdx = 0,
                             !.results = <<>>,
                             !.fromSplit = <<>>,
                             !.wagers = <<>>],
                "BETTING"))
  /\ UNCHANGED <<rounds, dealerHitsSoft17, fnVars>>

\* The most loop iterations a playDealerHand call is followed for: one more
\* than there are cards to draw.
MaxDealerIters == Len(FullShoe) + 1

\* playDealerHand: one iteration of while (shouldDealerHit(dealerHand)) hit(dealerHand)
playDealerHandHit ==
  /\ pc = "playDealerHand"
  /\ shouldDealerHit(dealerHand[1], dealerHitsSoft17)
  /\ dealerIters < MaxDealerIters
  /\ \E r \in hit(shoe, dealerHand[1]) :
       /\ shoe' = r.shoe
       /\ dealerHand' = <<r.hand>>
  /\ dealerIters' = dealerIters + 1
  /\ UNCHANGED <<state, playerHands, activeHandIdx, results, dealerHitsSoft17,
                 pc, lastCall, error, events, trace, fromSplit, wagers, rounds,
                 fnVars>>

\* playDealerHand leaves its loop; beginDealerTurn goes on to settle().
playDealerHandReturn ==
  /\ pc = "playDealerHand"
  /\ ~shouldDealerHit(dealerHand[1], dealerHitsSoft17)
  /\ Install(Settle(setState(
       emit([Game EXCEPT !.dealerHand[1] = settle(@), !.pc = "idle",
                         !.events = events, !.shoe = shoe],
            "dealerDone", "", -1),
       "SETTLEMENT")))
  /\ UNCHANGED <<lastCall, error, rounds, dealerHitsSoft17, fnVars>>

NoFn == fnPlayer = <<>> /\ fnDealer = <<>> /\ fnOut = <<>> /\ held = EmptyBag

\* createGame(opts): a shuffled shoe, BETTING, no hands.
Init ==
  /\ state = "BETTING"
  /\ playerHands = <<>>
  /\ dealerHand = <<>>
  /\ activeHandIdx = 0
  /\ results = <<>>
  /\ shoe = reset
  /\ dealerHitsSoft17 \in BOOLEAN
  /\ pc = "idle"
  /\ lastCall = Call("createGame", 0)
  /\ error = FALSE
  /\ events = <<>>
  /\ trace = <<"BETTING">>
  /\ fromSplit = <<>>
  /\ wagers = <<>>
  /\ dealerIters = 0
  /\ rounds = 0
  /\ NoFn

Next ==
  \/ \E bets \in BetSeqs : placeBets(bets)
  \/ playerHit
  \/ playerStand
  \/ playerDoubleDown
  \/ playerSplit
  \/ newRound
  \/ playDealerHandHit
  \/ playDealerHandReturn

Spec == Init /\ [][Next]_vars

\* ------------------------------------------- evaluate and compareHands alone

\* Every sequence of up to n cards over the given ranks.
RECURSIVE CardSeqs(_, _)
CardSeqs(ranks, n) ==
  IF n = 0 THEN {<<>>}
  ELSE LET shorter == CardSeqs(ranks, n - 1)
       IN  shorter \cup {Append(s, r) : s \in shorter, r \in ranks}

\* The ranks the hands given to compareHands are made of: naturals (A, K),
\* busts (K, 9, K), a three-card 21 (K, 9, 2) and unequal totals.
CmpRanks == {"A", "K", "9", "2"}

HandOf(cards) == addCards(createHand(FALSE, 0), cards)

\* The engine is not started in SpecEval and SpecCmp.
GameIdle ==
  /\ state = "BETTING"
  /\ playerHands = <<>>
  /\ dealerHand = <<>>
  /\ activeHandIdx = 0
  /\ results = <<>>
  /\ shoe = reset
  /\ dealerHitsSoft17 = FALSE
  /\ pc = "idle"
  /\ lastCall = Call("createGame", 0)
  /\ error = FALSE
  /\ events = <<>>
  /\ trace = <<"BETTING">>
  /\ fromSplit = <<>>
  /\ wagers = <<>>
  /\ dealerIters = 0
  /\ rounds = 0

InitEval ==
  /\ GameIdle
  /\ fnPlayer \in CardSeqs(RankSymbols, MaxEvalLen)
  /\ fnDealer = <<>>
  /\ fnOut = <<>>
  /\ held = EmptyBag

ApplyEvaluate ==
  /\ fnOut = <<>>
  /\ fnOut' = <<evaluate(fnPlayer)>>
  /\ UNCHANGED <<gameVars, dealerHitsSoft17, histVars, fnPlayer, fnDealer, held>>

SpecEval == InitEval /\ [][ApplyEvaluate]_vars

InitCmp ==
  /\ GameIdle
  /\ fnPlayer \in CardSeqs(CmpRanks, MaxCmpLen)
  /\ fnDealer \in CardSeqs(CmpRanks, MaxCmpLen)
  /\ fnOut = <<>>
  /\ held = EmptyBag

ApplyCompare ==
  /\ fnOut = <<>>
  /\ fnOut' = <<compareHands(HandOf(fnPlayer), HandOf(fnDealer))>>
  /\ UNCHANGED <<gameVars, dealerHitsSoft17, histVars, fnPlayer, fnDealer, held>>

SpecCmp == InitCmp /\ [][ApplyCompare]_vars

\* ------------------------------------------------------- the shoe alone

\* The shoe as a new game holds it, before any bet.
InitShoe == GameIdle /\ NoFn

\* The shoe with the history of the call that is about to be made: none yet.
ShoeNow == [shoe EXCEPT !.log = <<>>]

\* The shoe's callers in SpecShoe touch nothing of the engine.
ShoeFrame ==
  UNCHANGED <<state, playerHands, dealerHand, activeHandIdx, results,
              dealerHitsSoft17, histVars, fnPlayer, fnDealer, fnOut>>

ShoeBurn(count) ==
  /\ \E s \in burn(ShoeNow, count) : shoe' = s
  /\ UNCHANGED held
  /\ ShoeFrame

\* The caller keeps what draw returns.
ShoeDraw(count) ==
  /\ \E r \in draw(ShoeNow, count) :
       /\ shoe' = r.shoe
       /\ held' = held (+) SeqToBag(r.drawn)
  /\ ShoeFrame

\* The caller gives back some of the cards it holds, in any order.
ShoeDiscard(count) ==
  /\ \E r \in splice0(held, count) :
       /\ shoe' = discard(ShoeNow, r.taken)
       /\ held' = r.rest
  /\ ShoeFrame

NextShoe ==
  \/ \E count \in 0..MaxShoeCount : ShoeBurn(count)
  \/ \E count \in 0..MaxShoeCount : ShoeDraw(count)
  \/ \E count \in 0..MaxShoeCount : ShoeDiscard(count)

SpecShoe == InitShoe /\ [][NextShoe]_vars

\* --------------------------------------------- one round at a crowded table

\* The bets of a placeBets call for so many seats that the deal takes every
\* card of the shoe (MaxDealSeats - 1 seats) or asks for more (MaxDealSeats):
\* the code puts no limit on bets.length.  Smaller tables are those of Spec.
DealBets == UNION {[1..n -> 1..MaxBet] : n \in (MaxDealSeats - 1)..MaxDealSeats}

\* A new game taken through its first round; newRound is not called.
NextDeal ==
  \/ \E bets \in DealBets : placeBets(bets)
  \/ playerHit
  \/ playerStand
  \/ playerDoubleDown
  \/ playerSplit
  \/ playDealerHandHit
  \/ playDealerHandReturn

SpecDeal == Init /\ [][NextDeal]_vars

\* ------------------------------------------- one round at a table of seats

\* The bets of a placeBets call for up to MaxTableSeats seats.
TableBets == UNION {[1..n -> 1..MaxBet] : n \in 1..MaxTableSeats}

\* A new game taken through its first round; newRound is not called.
NextTable ==
  \/ \E bets \in TableBets : placeBets(bets)
  \/ playerHit
  \/ playerStand
  \/ playerDoubleDown
  \/ playerSplit
  \/ playDealerHandHit
  \/ playDealerHandReturn

SpecTable == Init /\ [][NextTable]_vars

\* ------------------------------------ rounds started only when one is over

\* newRound as a caller that follows the round machine calls it.
newRoundWhenOver == state = "GAME_OVER" /\ newRound

NextWhenOver ==
  \/ \E bets \in BetSeqs : placeBets(bets)
  \/ playerHit
  \/ playerStand
  \/ playerDoubleDown
  \/ playerSplit
  \/ newRoundWhenOver
  \/ playDealerHandHit
  \/ playDealerHandReturn

SpecWhenOver == Init /\ [][NextWhenOver]_vars

\* ------------------------------------------------------ settleRound alone

\* The cards of the hands given to settleRound: naturals in both orders, 20,
\* 19, 11, a three-card 21, a soft three-card 21 and a bust.
SettleCards ==
  { <<"A", "K">>, <<"K", "A">>, <<"K", "K">>, <<"K", "9">>, <<"9", "2">>,
    <<"K", "9", "2">>, <<"A", "A", "9">>, <<"K", "9", "K">> }

\* A player hand as the caller built it: createHand, addCards, settle or not.
SettleHand(cards, bet, settled) ==
  LET h == addCards(createHand(FALSE, bet), cards)
  IN  IF settled THEN settle(h) ELSE h

SettleHands ==
  {SettleHand(cards, bet, settled) :
     cards \in SettleCards, bet \in 1..MaxSettleBet, settled \in BOOLEAN}

\* fnPlayer is the array of player hands, fnDealer the dealer hand.
InitSettle ==
  /\ GameIdle
  /\ fnPlayer \in UNION {[1..n -> SettleHands] : n \in 0..MaxSettleHands}
  /\ fnDealer \in {settle(addCards(createHand(TRUE, 0), cards)) : cards \in SettleCards}
  /\ fnOut = <<>>
  /\ held = EmptyBag

\* settleRound reads the hands through total, isBusted, isBlackjack and
\* getBet, none of which writes a field of the hand.
ApplySettleRound ==
  /\ fnOut = <<>>
  /\ fnOut' = <<settleRound(fnPlayer, fnDealer)>>
  /\ UNCHANGED <<gameVars, dealerHitsSoft17, histVars, fnPlayer, fnDealer, held>>

SpecSettle == InitSettle /\ [][ApplySettleRound]_vars

\* ------------------------------------------------------------- properties

ActiveHand == playerHands[activeHandIdx + 1]

\* The cards held by the round's hands while the round is in play, that is
\* until settle() has returned them to the discard pile.
CardsInPlay ==
  IF state \in {"DEALING", "PLAYER_TURN", "DEALER_TURN", "SETTLEMENT"}
  THEN Flatten(playerHands) \o (IF dealerHand = <<>> THEN <<>> ELSE dealerHand[1].cards)
  ELSE <<>>

\* C1: card conservation.  At every point of every sequence of public
\* actions the live cards, the discard pile and the cards held by the hands
\* of the round in play are together exactly the cards the shoe was built
\* from: numDecks decks, no card lost, none duplicated.
C1_CardConservation ==
  /\ remaining(shoe) + BagCardinality(shoe.discardPile) + Len(CardsInPlay)
       = numDecks * Len(buildSingleDeck)
  /\ shoe.cards (+) shoe.discardPile (+) SeqToBag(CardsInPlay) = SeqToBag(FullShoe)

\* C2: every dealer turn terminates.  A hit that draws a card adds it to the
\* dealer hand, so a playDealerHand that returns has gone round its loop at
\* most as often as there are cards in the shoe.
C2_DealerTurnTerminates == dealerIters <= Len(FullShoe)

\* A step taken between calls is a public action, and lastCall' names it.
Calls(op) == pc = "idle" /\ lastCall'.op = op

PlayerOps == {"playerHit", "playerStand", "playerDoubleDown", "playerSplit"}

\* C3: invalid transition.  placeBets called in a state other than BETTING,
\* and playerHit, playerStand, playerDoubleDown or playerSplit called in a
\* state other than PLAYER_TURN, throw and leave state, hands, dealer hand,
\* active index, results and the shoe as they were.
C3_InvalidTransition ==
  [][ ( \/ Calls("placeBets") /\ state # "BETTING"
        \/ (\E op \in PlayerOps : Calls(op)) /\ state # "PLAYER_TURN" )
      => (error' /\ UNCHANGED gameVars) ]_vars

\* placeBets was refused during a player turn, the hands untouched.
C3_Witness ==
  /\ lastCall.op = "placeBets"
  /\ error
  /\ state = "PLAYER_TURN"
  /\ Len(playerHands) > 0
  /\ lastCall.nbets > 0

PairOfEqualRank(hand) == Len(hand.cards) = 2 /\ hand.cards[1] = hand.cards[2]

\* C4: invalid operation.  In PLAYER_TURN a playerSplit on an active hand
\* that is not two cards of equal rank and a playerDoubleDown on an active
\* hand that does not hold exactly two cards throw, and so does placeBets
\* with no bet in BETTING; nothing is burned, drawn, doubled, replaced or
\* settled, and state and active index stay.
C4_InvalidOperation ==
  [][ ( \/ Calls("playerSplit") /\ state = "PLAYER_TURN"
             /\ ~PairOfEqualRank(ActiveHand)
        \/ Calls("playerDoubleDown") /\ state = "PLAYER_TURN"
             /\ Len(ActiveHand.cards) # 2
        \/ Calls("placeBets") /\ state = "BETTING" /\ lastCall'.nbets = 0 )
      => (error' /\ UNCHANGED gameVars) ]_vars

\* A split of two cards of different rank was refused.
C4_Witness ==
  /\ lastCall.op = "playerSplit"
  /\ error
  /\ state = "PLAYER_TURN"
  /\ Len(ActiveHand.cards) = 2
  /\ ActiveHand.cards[1] # ActiveHand.cards[2]

\* C5: BETTING is entered only from GAME_OVER.  newRound called in a state
\* other than GAME_OVER throws and changes neither state, hands, active
\* index, results nor the shoe.
C5_NewRoundOnlyFromGameOver ==
  [][ (Calls("newRound") /\ state # "GAME_OVER")
      => (error' /\ UNCHANGED gameVars) ]_vars

RoundStates == <<"DEALING", "PLAYER_TURN", "DEALER_TURN", "SETTLEMENT", "GAME_OVER">>

Pos(s) == CHOOSE k \in 1..Len(RoundStates) : RoundStates[k] = s

\* The values of state from the successful placeBets up to GAME_OVER.
RoundPart(t) ==
  IF \E k \in 1..Len(t) : t[k] = "GAME_OVER"
  THEN SubSeq(t, 1, CHOOSE k \in 1..Len(t) :
                      t[k] = "GAME_OVER" /\ \A j \in 1..(k - 1) : t[j] # "GAME_OVER")
  ELSE t

\* t is a subsequence of RoundStates that starts with DEALING, reaches
\* GAME_OVER only from SETTLEMENT and DEALER_TURN only from PLAYER_TURN.
InRoundOrder(t) ==
  /\ \A k \in 1..Len(t) : \E n \in 1..Len(RoundStates) : RoundStates[n] = t[k]
  /\ \A k \in 2..Len(t) : Pos(t[k - 1]) < Pos(t[k])
  /\ t[1] = "DEALING"
  /\ \A k \in 2..Len(t) : t[k] = "GAME_OVER" => t[k - 1] = "SETTLEMENT"
  /\ \A k \in 2..Len(t) : t[k] = "DEALER_TURN" => t[k - 1] = "PLAYER_TURN"

\* C6: within one round, from a successful placeBets until state is
\* GAME_OVER, the successive values of state are a subsequence of DEALING,
\* PLAYER_TURN, DEALER_TURN, SETTLEMENT, GAME_OVER in that order.
C6_RoundStateOrder == rounds > 0 => InRoundOrder(RoundPart(trace))

\* The same order for the values of state up to GAME_OVER or to the reset
\* that abandons the round, whichever comes first.
UntilReset(t) ==
  IF \E k \in 1..Len(t) : t[k] = "BETTING"
  THEN SubSeq(t, 1, (CHOOSE k \in 1..Len(t) : t[k] = "BETTING") - 1)
  ELSE t

RoundStateOrderUntilReset == rounds > 0 => InRoundOrder(RoundPart(UntilReset(trace)))

Emitted(name) == \E k \in 1..Len(events) : events[k].ev = name

\* C7: dealer natural.  When placeBets deals the dealer a two-card 21 the
\* round goes DEALING, SETTLEMENT, GAME_OVER: PLAYER_TURN is never entered,
\* no hand becomes active, and the results are PUSH with payout 0 for every
\* player natural and LOSE with payout -1 for every other player hand.
C7_DealerNatural ==
  (state = "GAME_OVER" /\ isBlackjack(dealerHand[1]))
  => /\ trace = <<"DEALING", "SETTLEMENT", "GAME_OVER">>
     /\ (lastCall.op = "placeBets" /\ ~error) => ~Emitted("activeHandChange")
     /\ Len(results) = Len(playerHands)
     /\ \A i \in 1..Len(playerHands) :
          IF Len(playerHands[i].cards) = 2 /\ total(playerHands[i]) = 21
          THEN results[i].outcome = "PUSH" /\ results[i].payoutX2 = 0
          ELSE results[i].outcome = "LOSE" /\ results[i].payoutX2 = -2

\* The dealer was dealt a natural against a player hand that is none.
C7_Witness ==
  /\ state = "GAME_OVER"
  /\ lastCall.op = "placeBets"
  /\ ~error
  /\ isBlackjack(dealerHand[1])
  /\ \E i \in 1..Len(playerHands) : ~isBlackjack(playerHands[i])

\* C9: BLACKJACK with payout 1.5 goes to a natural only: a hand created by
\* playerSplit never receives the BLACKJACK result.
C9_SplitHandNeverBlackjack ==
  \A i \in 1..Len(results) : fromSplit[i] => results[i].outcome # "BLACKJACK"

\* What a hand is worth under one choice f of 1 or 11 for each of its aces
\* (f is defined on the positions of the aces).
RECURSIVE ValueUnder(_, _, _)
ValueUnder(cards, f, k) ==
  IF k > Len(cards) THEN 0
  ELSE (IF k \in DOMAIN f THEN f[k] ELSE CardValue(cards[k]))
       + ValueUnder(cards, f, k + 1)

AceChoices(cards) == [{k \in 1..Len(cards) : cards[k] = "A"} -> {1, 11}]

\* The largest achievable value not above 21 if there is one, otherwise the
\* least achievable value.
BestValue(cards) ==
  LET vals == {ValueUnder(cards, f, 1) : f \in AceChoices(cards)}
      ok   == {v \in vals : v <= 21}
  IN  IF ok # {} THEN CHOOSE v \in ok : \A w \in ok : w <= v
      ELSE CHOOSE v \in vals : \A w \in vals : v <= w

CountsAnAceAs11(cards) ==
  \E f \in AceChoices(cards) :
    /\ ValueUnder(cards, f, 1) = BestValue(cards)
    /\ \E k \in DOMAIN f : f[k] = 11

\* C10: hand value.  evaluate returns the largest value not above 21 that
\* some choice of 1 or 11 for each ace achieves, or the least achievable
\* value if there is none, and soft exactly when an ace counts 11 in it:
\* {A,A,9} is 21 soft, {A,A,A} is 13 soft, {10,6,A} is 17 hard.
C10_HandValue ==
  fnOut # <<>> =>
    /\ fnOut[1].total = BestValue(fnPlayer)
    /\ fnOut[1].soft = CountsAnAceAs11(fnPlayer)
    /\ fnPlayer = <<"A", "A", "9">> => fnOut[1] = [total |-> 21, soft |-> TRUE]
    /\ fnPlayer = <<"A", "A", "A">> => fnOut[1] = [total |-> 13, soft |-> TRUE]
    /\ fnPlayer = <<"10", "6", "A">> => fnOut[1] = [total |-> 17, soft |-> FALSE]

\* evaluate was applied to three aces: two are reduced, one still counts 11.
C10_Witness ==
  /\ fnOut # <<>>
  /\ fnPlayer = <<"A", "A", "A">>
  /\ fnOut[1].soft

Busts(cards) == BestValue(cards) > 21

TwoCard21(cards) == Len(cards) = 2 /\ BestValue(cards) = 21

Result(outcome, payoutX2) == [outcome |-> outcome, payoutX2 |-> payoutX2]

\* C8: compareHands follows the decision order: a busted player loses
\* whatever the dealer holds; else a two-card player 21 pushes against a
\* two-card dealer 21 and is paid 1.5 otherwise, also against a dealer 21 of
\* three or more cards; else a busted dealer pays 1; else the totals decide.
C8_CompareOrder ==
  fnOut # <<>> =>
    fnOut[1] =
      ( IF Busts(fnPlayer) THEN Result("LOSE", -2)
        ELSE IF TwoCard21(fnPlayer)
        THEN (IF TwoCard21(fnDealer) THEN Result("PUSH", 0) ELSE Result("BLACKJACK", 3))
        ELSE IF Busts(fnDealer) THEN Result("DEALER_BUST", 2)
        ELSE IF BestValue(fnPlayer) > BestValue(fnDealer) THEN Result("WIN", 2)
        ELSE IF BestValue(fnPlayer) < BestValue(fnDealer) THEN Result("LOSE", -2)
        ELSE Result("PUSH", 0) )

\* A player natural was compared with a dealer 21 of three cards.
C8_Witness ==
  /\ fnOut # <<>>
  /\ fnPlayer = <<"A", "K">>
  /\ Len(fnDealer) = 3
  /\ BestValue(fnDealer) = 21
  /\ fnOut[1].outcome = "BLACKJACK"

\* The dealer hand of the round gains a card in this step.
DealerDraws ==
  /\ dealerHand # <<>>
  /\ dealerHand' # <<>>
  /\ Len(dealerHand'[1].cards) > Len(dealerHand[1].cards)

Soft17(cards) == BestValue(cards) = 17 /\ CountsAnAceAs11(cards)

\* The dealer policy: below 17, or a soft 17 when the option is set.
MustHit(cards, hitsSoft17) ==
  BestValue(cards) < 17 \/ (Soft17(cards) /\ hitsSoft17)

PlayDealerHandReturns == pc = "playDealerHand" /\ pc' = "idle"

\* C11: dealer policy.  The dealer takes a card only when the total before
\* the draw is below 17, or is a soft 17 and dealerHitsSoft17 is true; when
\* playDealerHand returns the dealer hand is settled, its total is at least
\* 17 and, under dealerHitsSoft17, it is not a soft 17.  {A,6} gets no card
\* when dealerHitsSoft17 is false and gets one when it is true.
C11_DealerPolicy ==
  [][ /\ DealerDraws => MustHit(dealerHand[1].cards, dealerHitsSoft17)
      /\ PlayDealerHandReturns =>
           /\ dealerHand'[1].settled
           /\ BestValue(dealerHand'[1].cards) >= 17
           /\ dealerHitsSoft17 => ~Soft17(dealerHand'[1].cards)
      /\ ~shouldDealerHit(HandOf(<<"A", "6">>), FALSE)
      /\ shouldDealerHit(HandOf(<<"A", "6">>), TRUE) ]_vars

\* The dealer has drawn to a soft 17 and stood on it: dealerHitsSoft17 is off.
C11_Witness ==
  /\ state = "GAME_OVER"
  /\ ~dealerHitsSoft17
  /\ dealerIters > 0
  /\ dealerHand[1].settled
  /\ Len(dealerHand[1].cards) > 2
  /\ Soft17(dealerHand[1].cards)

\* The cards the draws of a shoe history returned, in the order drawn.
RECURSIVE DrawnIn(_)
DrawnIn(log) ==
  IF log = <<>> THEN <<>>
  ELSE (IF Head(log).op = "draw" THEN Head(log).cards ELSE <<>>) \o DrawnIn(Tail(log))

\* The last call was a placeBets that dealt, and nothing was called since.
JustDealt == lastCall.op = "placeBets" /\ ~error

\* C12: initial deal.  After a successful placeBets with n bets there are
\* exactly n player hands, hand i carrying bets[i], and one dealer hand, each
\* holding exactly two cards, taken from the shoe after the burn in the order
\* P1..Pn, D, P1..Pn, D: player i holds the i-th and (n+1+i)-th cards drawn,
\* the dealer the (n+1)-th and (2n+2)-th.
C12_InitialDeal ==
  JustDealt =>
    LET n == lastCall.nbets
        d == DrawnIn(shoe.log)
    IN  /\ Len(playerHands) = n
        /\ \A i \in 1..n : playerHands[i].bet = lastCall.bets[i]
        /\ dealerHand # <<>>
        /\ shoe.log[1].op = "burn"
        /\ \A k \in 2..(2 * n + 3) : shoe.log[k].op = "draw"
        /\ Len(d) = 2 * n + 2
        /\ \A i \in 1..n : playerHands[i].cards = <<d[i], d[n + 1 + i]>>
        /\ dealerHand[1].cards = <<d[n + 1], d[2 * n + 2]>>

\* The burns of a shoe history.
BurnsIn(log) == SelectSeq(log, LAMBDA e : e.op = "burn")

\* The cards the hands hold, as a bag.
HeldCards(hands, dealer) ==
  SeqToBag(Flatten(hands) \o (IF dealer = <<>> THEN <<>> ELSE dealer[1].cards))

\* C13: burn card.  Every round burns exactly one card, across any sequence
\* of rounds: each successful placeBets moves exactly one card from the front
\* of the live cards to the discard pile before the first card is dealt, the
\* burn itself puts that card in no hand (the hands hold the cards drawn
\* after it), and no other action burns.
C13_BurnCard ==
  [][ IF Calls("placeBets") /\ ~error'
      THEN /\ Len(BurnsIn(shoe'.log)) = 1
           /\ shoe'.log[1].op = "burn"
           /\ shoe'.log[1].count = 1
           /\ Len(shoe'.log[1].cards) = 1
           /\ BagIn(shoe'.log[1].cards[1], shoe.cards)
           /\ HeldCards(playerHands', dealerHand') = SeqToBag(DrawnIn(shoe'.log))
      ELSE shoe'.log = shoe.log \/ BurnsIn(shoe'.log) = <<>> ]_vars

\* C14: double down.  playerDoubleDown on an active hand of exactly two
\* cards doubles that hand's bet, draws exactly one card into it so that the
\* hand ends the action with exactly three cards, marks it settled and
\* advances the turn: bust or not, the hand is not the active hand again.
C14_DoubleDown ==
  [][ (Calls("playerDoubleDown") /\ state = "PLAYER_TURN"
         /\ Len(ActiveHand.cards) = 2)
      => LET i == activeHandIdx + 1
         IN  /\ ~error'
             /\ Len(playerHands') = Len(playerHands)
             /\ playerHands'[i].bet = 2 * playerHands[i].bet
             /\ Len(DrawnIn(shoe'.log)) >= 1
             /\ Len(playerHands'[i].cards) = 3
             /\ playerHands'[i].cards
                  = playerHands[i].cards \o <<DrawnIn(shoe'.log)[1]>>
             /\ playerHands'[i].settled
             /\ \A j \in 1..Len(playerHands) :
                  j # i => playerHands'[j] = playerHands[j]
             /\ activeHandIdx' > activeHandIdx
             /\ state' # "PLAYER_TURN" \/ activeHandIdx' < Len(playerHands') ]_vars

\* A hand that takes no action: marked settled, busted or a two-card 21.
Unsettled(hand) ==
  ~hand.settled /\ BestValue(hand.cards) <= 21 /\ ~TwoCard21(hand.cards)

\* The 0-based index of the first unsettled hand at or after from, or
\* Len(hands) when there is none.
FirstUnsettled(hands, from) ==
  LET open == {k \in from..(Len(hands) - 1) : Unsettled(hands[k + 1])}
  IN  IF open = {} THEN Len(hands) ELSE CHOOSE k \in open : \A m \in open : k <= m

\* C15: split.  playerSplit on an active hand of two cards of equal rank
\* replaces it at the same index by two hands A and B, A first, each with the
\* original bet, A holding the original first card and B the second plus one
\* newly drawn card each, A dealt before B; there is exactly one more player
\* hand, the other hands keep cards, bets and order, neither new hand is
\* marked settled, and the active hand becomes the first unsettled hand at or
\* after that index (the dealer's turn begins when there is none).
C15_Split ==
  [][ (Calls("playerSplit") /\ state = "PLAYER_TURN" /\ PairOfEqualRank(ActiveHand))
      => LET i == activeHandIdx + 1
             n == Len(playerHands)
             d == DrawnIn(shoe'.log)
         IN  /\ ~error'
             /\ Len(playerHands') = n + 1
             /\ playerHands'[i].bet = playerHands[i].bet
             /\ playerHands'[i + 1].bet = playerHands[i].bet
             /\ Len(d) >= 2
             /\ playerHands'[i].cards = <<playerHands[i].cards[1], d[1]>>
             /\ playerHands'[i + 1].cards = <<playerHands[i].cards[2], d[2]>>
             /\ ~playerHands'[i].settled
             /\ ~playerHands'[i + 1].settled
             /\ \A j \in 1..(i - 1) : playerHands'[j] = playerHands[j]
             /\ \A j \in (i + 1)..n : playerHands'[j + 1] = playerHands[j]
             /\ activeHandIdx' = FirstUnsettled(playerHands', activeHandIdx)
             /\ (activeHandIdx' = n + 1) = (state' # "PLAYER_TURN") ]_vars

\* What a playerHit in PLAYER_TURN does with the cards d that its draw
\* returned: they go to the active hand and to no other; a hand brought above
\* 21 is marked settled and the turn passes to the next unsettled hand, or to
\* the dealer when none remains; otherwise state, active index and the hand's
\* settled mark stay, also at a total of exactly 21.
HitOutcome(d) ==
  LET i == activeHandIdx + 1
      n == Len(playerHands)
  IN  /\ ~error'
      /\ Len(playerHands') = n
      /\ playerHands'[i].cards = playerHands[i].cards \o d
      /\ playerHands'[i].bet = playerHands[i].bet
      /\ \A j \in 1..n : j # i => playerHands'[j] = playerHands[j]
      /\ dealerHand'[1].cards = dealerHand[1].cards
      /\ IF BestValue(playerHands'[i].cards) > 21
         THEN /\ playerHands'[i].settled
              /\ activeHandIdx' = FirstUnsettled(playerHands', activeHandIdx + 1)
              /\ (activeHandIdx' = n) = (state' # "PLAYER_TURN")
         ELSE /\ state' = "PLAYER_TURN"
              /\ activeHandIdx' = activeHandIdx
              /\ playerHands'[i].settled = playerHands[i].settled
              /\ ~playerHands'[i].settled

AllBusted(hands) == \A i \in 1..Len(hands) : BestValue(hands[i].cards) > 21

\* Position of the first event of that name among events, 0 when there is none.
FirstAt(evs, name) ==
  IF \E k \in 1..Len(evs) : evs[k].ev = name
  THEN CHOOSE k \in 1..Len(evs) :
         evs[k].ev = name /\ \A j \in 1..(k - 1) : evs[j].ev # name
  ELSE 0

\* The round is settled in this step, after a dealer turn.
SettledAfterDealerTurn ==
  /\ state # "GAME_OVER"
  /\ state' = "GAME_OVER"
  /\ \E k \in 1..Len(trace') : trace'[k] = "DEALER_TURN"

\* C17: dead table.  When the last player hand becomes settled and every
\* player hand is busted, the dealer hand is marked settled without drawing
\* (it keeps exactly the cards it was dealt), neither dealerReveal nor
\* dealerDone is emitted and every result is LOSE with payout -1; when some
\* player hand is not busted the dealer plays by the dealer policy before
\* the settlement.
C17_DeadTable ==
  [][ /\ ((\E op \in PlayerOps : Calls(op)) /\ ~error' /\ AllBusted(playerHands'))
         => /\ state' = "GAME_OVER"
            /\ pc' = "idle"
            /\ dealerHand'[1].settled
            /\ dealerHand'[1].cards = dealerHand[1].cards
            /\ dealerIters' = 0
            /\ FirstAt(events', "dealerReveal") = 0
            /\ FirstAt(events', "dealerDone") = 0
            /\ Len(results') = Len(playerHands')
            /\ \A i \in 1..Len(results') :
                 results'[i].outcome = "LOSE" /\ results'[i].payoutX2 = -2
      /\ (SettledAfterDealerTurn /\ ~AllBusted(playerHands'))
         => /\ FirstAt(events', "dealerReveal") > 0
            /\ FirstAt(events', "dealerReveal") < FirstAt(events', "dealerDone")
            /\ FirstAt(events', "dealerDone") < FirstAt(events', "settlement")
            /\ dealerHand'[1].settled
            /\ ~MustHit(dealerHand'[1].cards, dealerHitsSoft17) ]_vars

\* The only player hand has just busted: the round is over, the dealer holds
\* the two cards of the deal and has not played.
C17_Witness ==
  /\ state = "GAME_OVER"
  /\ lastCall.op \in PlayerOps
  /\ ~error
  /\ AllBusted(playerHands)
  /\ Len(playerHands) > 0
  /\ dealerIters = 0
  /\ Len(dealerHand[1].cards) = 2
  /\ dealerHand[1].settled
  /\ Len(results) = Len(playerHands)

\* |live| <= floor(totalCards * (1 - 0.75)), in integers.
AtThreshold(live, totalCards) == 4 * live <= totalCards

\* A shoe of one deck with the given number of live cards (13 or 14).
DeckShoe(live) ==
  [cards |-> [r \in RankSymbols |-> IF r = "A" THEN live - 12 ELSE 1],
   discardPile |-> EmptyBag, totalCards |-> 52, log |-> <<>>]

\* C18: reshuffle trigger.  draw reshuffles before removing cards exactly
\* when |live| <= floor(totalCards * (1 - penetration)) at the time of the
\* call: at 13 live cards or fewer for one deck of 52 at penetration 0.75.
\* A reshuffle moves every discarded card into the live cards, leaves the
\* discard pile empty, sets totalCards to the new number of live cards and
\* pulls in no card that is still held; burn and discard never reshuffle.
C18_ReshuffleTrigger ==
  [][ LET e     == shoe'.log[1]
          moved == SeqToBag(e.cards)
          live  == shoe.cards
          disc  == shoe.discardPile
      IN  /\ Len(shoe'.log) = 1
          /\ e.op = "draw" =>
               /\ e.reshuffled = AtThreshold(BagCardinality(live), shoe.totalCards)
               /\ IF AtThreshold(BagCardinality(live), shoe.totalCards)
                  THEN /\ shoe'.cards (+) moved = live (+) disc
                       /\ shoe'.discardPile = EmptyBag
                       /\ shoe'.totalCards = BagCardinality(live) + BagCardinality(disc)
                       /\ e.avail = shoe'.totalCards
                  ELSE /\ shoe'.cards (+) moved = live
                       /\ shoe'.discardPile = disc
                       /\ shoe'.totalCards = shoe.totalCards
               /\ held' = held (+) moved
          /\ e.op = "burn" =>
               /\ ~e.reshuffled
               /\ shoe'.cards (+) moved = live
               /\ shoe'.discardPile = disc (+) moved
               /\ shoe'.totalCards = shoe.totalCards
          /\ e.op = "discard" =>
               /\ ~e.reshuffled
               /\ shoe'.cards = live
               /\ shoe'.discardPile = disc (+) moved
               /\ shoe'.totalCards = shoe.totalCards
          /\ needsReshuffle(DeckShoe(13))
          /\ ~needsReshuffle(DeckShoe(14)) ]_vars

\* A draw has reshuffled discarded cards back in while the caller still held
\* cards, and the shoe now counts fewer cards than it was built with.
C18_Witness ==
  /\ Len(shoe.log) = 1
  /\ shoe.log[1].op = "draw"
  /\ shoe.log[1].reshuffled
  /\ shoe.log[1].cards # <<>>
  /\ BagCardinality(held) > Len(shoe.log[1].cards)
  /\ shoe.totalCards > 0
  /\ shoe.totalCards < Len(FullShoe)
  /\ shoe.discardPile = EmptyBag

Min(a, b) == IF a <= b THEN a ELSE b

\* The live cards a draw on shoe s finds once it has reshuffled, if it does.
LiveForDraw(s) ==
  IF AtThreshold(BagCardinality(s.cards), s.totalCards)
  THEN BagCardinality(s.cards) + BagCardinality(s.discardPile)
  ELSE BagCardinality(s.cards)

\* This step is one iteration of playDealerHand's loop: dealer.hit(dealerHand).
DealerHitStep == pc = "playDealerHand" /\ pc' = "playDealerHand"

\* C19: shoe exhaustion is a soft degrade.  draw(n) raises no error and
\* returns exactly min(n, live cards after any reshuffle) cards, possibly
\* none; when the shoe yields no card, dealer.hit and playerHit complete
\* normally and leave the cards of the hand they were given as they were.
C19_SoftDegrade ==
  [][ /\ \A k \in 1..Len(shoe'.log) :
           shoe'.log[k].op = "draw" =>
             Len(shoe'.log[k].cards) = Min(shoe'.log[k].count, shoe'.log[k].avail)
      /\ (Calls("playerHit") /\ state = "PLAYER_TURN") =>
           LET d == DrawnIn(shoe'.log)
           IN  /\ ~error'
               /\ Len(shoe'.log) >= 1
               /\ shoe'.log[1].op = "draw"
               /\ shoe'.log[1].count = 1
               /\ Len(d) = Min(1, LiveForDraw(shoe))
               /\ ActiveHand.cards \o d = playerHands'[activeHandIdx + 1].cards
               /\ d = <<>> => /\ playerHands' = playerHands
                              /\ state' = state
                              /\ activeHandIdx' = activeHandIdx
      /\ DealerHitStep =>
           LET e == shoe'.log[Len(shoe'.log)]
           IN  /\ shoe'.log = Append(shoe.log, e)
               /\ e.op = "draw"
               /\ e.count = 1
               /\ Len(e.cards) = Min(1, LiveForDraw(shoe))
               /\ dealerHand'[1].cards = dealerHand[1].cards \o e.cards
               /\ e.cards = <<>> => dealerHand' = dealerHand
               /\ error' = error ]_vars

\* playerHit has returned normally from a shoe with no card left, live or
\* discarded: nothing was drawn and the round is where it was.
C19_Witness ==
  /\ lastCall.op = "playerHit"
  /\ ~error
  /\ state = "PLAYER_TURN"
  /\ Len(shoe.log) = 1
  /\ shoe.log[1].op = "draw"
  /\ shoe.log[1].cards = <<>>
  /\ shoe.log[1].avail = 0
  /\ Len(ActiveHand.cards) >= 2

\* settle() runs in this step: the settlement event is new.
SettlesNow == events' # events /\ FirstAt(events', "settlement") > 0

\* The discards of a shoe history.
DiscardsIn(log) == SelectSeq(log, LAMBDA e : e.op = "discard")

\* The result of a hand against the dealer's, by the decision order of C8.
ResultOf(p, d) ==
  IF Busts(p) THEN Result("LOSE", -2)
  ELSE IF TwoCard21(p)
  THEN (IF TwoCard21(d) THEN Result("PUSH", 0) ELSE Result("BLACKJACK", 3))
  ELSE IF Busts(d) THEN Result("DEALER_BUST", 2)
  ELSE IF BestValue(p) > BestValue(d) THEN Result("WIN", 2)
  ELSE IF BestValue(p) < BestValue(d) THEN Result("LOSE", -2)
  ELSE Result("PUSH", 0)

\* C20: settlement.  Whenever a round is settled, results holds exactly one
\* entry per player hand, split hands included, in hand order; every card
\* held by every player hand and by the dealer hand is appended to the
\* shoe's discard pile exactly once; and the round ends in GAME_OVER, which
\* is entered in no other way.
C20_Settlement ==
  [][ /\ (state # "GAME_OVER" /\ state' = "GAME_OVER") => SettlesNow
      /\ SettlesNow =>
           LET allCards == Flatten(playerHands') \o dealerHand'[1].cards
               last     == shoe'.log[Len(shoe'.log)]
           IN  /\ state' = "GAME_OVER"
               /\ pc' = "idle"
               /\ Len(results') = Len(playerHands')
               /\ \A i \in 1..Len(playerHands') :
                    /\ results'[i].hand = i - 1
                    /\ Result(results'[i].outcome, results'[i].payoutX2)
                         = ResultOf(playerHands'[i].cards, dealerHand'[1].cards)
                    /\ results'[i].netX2 = playerHands'[i].bet * results'[i].payoutX2
               /\ Len(DiscardsIn(shoe'.log)) = 1
               /\ last.op = "discard"
               /\ last.cards = allCards
               /\ SeqToBag(allCards) \sqsubseteq shoe'.discardPile
               /\ shoe'.cards (+) shoe'.discardPile
                    = shoe.cards (+) shoe.discardPile
                        (+) HeldCards(playerHands, dealerHand) ]_vars

\* A round with a split hand has been settled: two results for two hands,
\* and the cards of all three hands went to the discard pile in one call.
C20_Witness ==
  /\ state = "GAME_OVER"
  /\ Len(playerHands) = 2
  /\ fromSplit = <<TRUE, TRUE>>
  /\ Len(results) = 2
  /\ shoe.log # <<>>
  /\ shoe.log[Len(shoe.log)].op = "discard"
  /\ Len(shoe.log[Len(shoe.log)].cards)
       = Len(Flatten(playerHands)) + Len(dealerHand[1].cards)
  /\ Len(dealerHand[1].cards) > 2

\* settleRound returns in this step.
SettleRoundReturns == fnOut = <<>> /\ fnOut' # <<>>

\* C21: settleRound returns, for each player hand in order, a result that
\* refers to that hand, with the outcome and payout of compareHands against
\* the dealer hand and net = bet * payout; the payout is 1.5 exactly for
\* BLACKJACK, 1 exactly for WIN and DEALER_BUST, 0 exactly for PUSH and -1
\* exactly for LOSE; no hand's cards, bet or settled flag is changed.
C21_SettleRound ==
  [][ SettleRoundReturns =>
        LET res == fnOut'[1]
        IN  /\ Len(res) = Len(fnPlayer)
            /\ \A i \in 1..Len(fnPlayer) :
                 /\ res[i].hand = i - 1
                 /\ Result(res[i].outcome, res[i].payoutX2)
                      = ResultOf(fnPlayer[i].cards, fnDealer.cards)
                 /\ res[i].netX2 = fnPlayer[i].bet * res[i].payoutX2
                 /\ res[i].payoutX2 \in {3, 2, 0, -2}
                 /\ (res[i].payoutX2 = 3) = (res[i].outcome = "BLACKJACK")
                 /\ (res[i].payoutX2 = 2) = (res[i].outcome \in {"WIN", "DEALER_BUST"})
                 /\ (res[i].payoutX2 = 0) = (res[i].outcome = "PUSH")
                 /\ (res[i].payoutX2 = -2) = (res[i].outcome = "LOSE")
            /\ fnPlayer' = fnPlayer
            /\ fnDealer' = fnDealer ]_vars

\* Two hands were settled against a dealer 20: a natural with a bet of 2,
\* not marked settled, is paid 3, and a bust with a bet of 2 loses 2.
C21_Witness ==
  /\ fnOut # <<>>
  /\ Len(fnPlayer) = 2
  /\ fnPlayer[1] = SettleHand(<<"A", "K">>, 2, FALSE)
  /\ fnPlayer[2] = SettleHand(<<"K", "9", "K">>, 2, TRUE)
  /\ fnDealer.cards = <<"K", "K">>
  /\ fnOut[1][1].outcome = "BLACKJACK"
  /\ fnOut[1][1].netX2 = 6
  /\ fnOut[1][2].outcome = "LOSE"
  /\ fnOut[1][2].netX2 = -4

\* Every player hand is a two-card 21 and the dealer hand is none.
AllPlayerNaturals(hands, dealer) ==
  /\ \A i \in 1..Len(hands) : TwoCard21(hands[i].cards)
  /\ ~TwoCard21(dealer[1].cards)

\* C22: all-player naturals.  When placeBets deals every player hand a
\* two-card 21 and the dealer none, the round goes from DEALING directly to
\* SETTLEMENT: neither PLAYER_TURN nor DEALER_TURN is entered, the dealer
\* draws no card beyond the two of the deal, and every result is BLACKJACK
\* with payout 1.5.
C22_AllPlayerNaturals ==
  [][ (Calls("placeBets") /\ ~error'
         /\ AllPlayerNaturals(playerHands', dealerHand'))
      => /\ trace' = <<"DEALING", "SETTLEMENT", "GAME_OVER">>
         /\ state' = "GAME_OVER"
         /\ pc' = "idle"
         /\ dealerIters' = 0
         /\ Len(dealerHand'[1].cards) = 2
         /\ Len(DrawnIn(shoe'.log)) = 2 * Len(playerHands') + 2
         /\ FirstAt(events', "activeHandChange") = 0
         /\ FirstAt(events', "dealerReveal") = 0
         /\ FirstAt(events', "dealerDone") = 0
         /\ Len(results') = Len(playerHands')
         /\ \A i \in 1..Len(results') :
              /\ results'[i].outcome = "BLACKJACK"
              /\ results'[i].payoutX2 = 3
              /\ results'[i].netX2 = 3 * playerHands'[i].bet ]_vars

\* Two seats were both dealt a natural and the dealer was not: the round is
\* over on return from placeBets, with two BLACKJACK results.
C22_Witness ==
  /\ JustDealt
  /\ Len(playerHands) = 2
  /\ AllPlayerNaturals(playerHands, dealerHand)
  /\ state = "GAME_OVER"
  /\ Len(results) = 2
  /\ results[1].outcome = "BLACKJACK"
  /\ results[2].outcome = "BLACKJACK"

\* This step starts a round (a placeBets that deals) or abandons one (newRound).
RoundBoundary == (Calls("placeBets") /\ ~error') \/ Calls("newRound")

\* C23: active-hand invariant.  Whenever state is PLAYER_TURN on return from
\* an action, activeHandIndex is within range of the player hands, the
\* active hand is not settled (not stood or doubled, not busted, not a
\* two-card 21) and every player hand at a lower index is settled; the index
\* never decreases within a round.
C23_ActiveHand ==
  /\ [] ( (state = "PLAYER_TURN" /\ pc = "idle")
          => /\ activeHandIdx >= 0
             /\ activeHandIdx < Len(playerHands)
             /\ Unsettled(ActiveHand)
             /\ \A j \in 1..activeHandIdx : ~Unsettled(playerHands[j]) )
  /\ [][ ~RoundBoundary => activeHandIdx' >= activeHandIdx ]_vars

\* After a split the first hand is a two-card 21 that no one marked settled:
\* it was skipped, and the second hand is the active one.
C23_Witness ==
  /\ state = "PLAYER_TURN"
  /\ pc = "idle"
  /\ lastCall.op = "playerSplit"
  /\ ~error
  /\ activeHandIdx = 1
  /\ TwoCard21(playerHands[1].cards)
  /\ ~playerHands[1].settled
  /\ Unsettled(ActiveHand)

\* C24: a hand's bet is changed only by playerDoubleDown and at most once per
\* hand.  placeBets gives hand i the wager of seat i and a split gives both
\* new hands the wager of the hand split; no other step changes a bet but a
\* playerDoubleDown, which doubles the bet of the active hand; a hand whose
\* bet was doubled is never split or doubled again; and at settlement every
\* player hand's bet is the wager placed for its seat or exactly twice it.
C24_BetDoubledOnce ==
  [][ LET i == activeHandIdx + 1
          n == Len(playerHands)
      IN  /\ (Calls("placeBets") /\ ~error')
               => /\ wagers' = lastCall'.bets
                  /\ Len(playerHands') = Len(wagers')
                  /\ \A j \in 1..Len(playerHands') : playerHands'[j].bet = wagers'[j]
          /\ (Calls("playerSplit") /\ ~error')
               => /\ playerHands[i].bet = wagers[i]
                  /\ Len(playerHands') = n + 1
                  /\ playerHands'[i].bet = wagers[i]
                  /\ playerHands'[i + 1].bet = wagers[i]
                  /\ \A j \in 1..(i - 1) : playerHands'[j].bet = playerHands[j].bet
                  /\ \A j \in (i + 1)..n : playerHands'[j + 1].bet = playerHands[j].bet
          /\ (Calls("playerDoubleDown") /\ ~error')
               => /\ playerHands[i].bet = wagers[i]
                  /\ playerHands'[i].bet = 2 * wagers[i]
          /\ (~RoundBoundary /\ ~(Calls("playerSplit") /\ ~error'))
               => /\ Len(playerHands') = n
                  /\ \A j \in 1..n :
                       playerHands'[j].bet # playerHands[j].bet
                         => Calls("playerDoubleDown") /\ ~error' /\ j = i
          /\ SettlesNow
               => \A j \in 1..Len(playerHands') :
                    playerHands'[j].bet \in {wagers'[j], 2 * wagers'[j]} ]_vars

\* A round was settled in which a seat's hand was split, one of the two
\* hands was doubled and the other was not.
C24_Witness ==
  /\ state = "GAME_OVER"
  /\ Len(playerHands) = 2
  /\ fromSplit = <<TRUE, TRUE>>
  /\ wagers[1] = wagers[2]
  /\ playerHands[1].bet = 2 * wagers[1]
  /\ playerHands[2].bet = wagers[2]
  /\ Len(results) = 2

\* hand.isSettled(): the flag, a bust or a two-card 21.
ReportsSettled(hand) == ~Unsettled(hand)

\* C25: the evaluator is applied only to settled hands.  At every point
\* where the round machine invokes settleRound (after the dealer turn, on a
\* dealer natural, and when every player holds a natural), every player hand
\* and the dealer hand report isSettled() = true.
C25_EvaluatorOnSettledHands ==
  [][ SettlesNow =>
        /\ \A j \in 1..Len(playerHands') : ReportsSettled(playerHands'[j])
        /\ ReportsSettled(dealerHand'[1]) ]_vars

\* The same for the settlements that follow a dealer turn.
EvaluatorOnSettledHandsAfterDealerTurn ==
  [][ (SettlesNow /\ \E k \in 1..Len(trace') : trace'[k] = "DEALER_TURN") =>
        /\ \A j \in 1..Len(playerHands') : ReportsSettled(playerHands'[j])
        /\ ReportsSettled(dealerHand'[1]) ]_vars

\* The positions of the events of that name, and of the stateChange to s.
Positions(evs, name) == {k \in 1..Len(evs) : evs[k].ev = name}

StateChanges(evs, s) == {k \in Positions(evs, "stateChange") : evs[k].st = s}

CardCounts(hands) == [i \in 1..Len(hands) |-> Len(hands[i].cards)]

\* The events of the action in progress (or of the last one) are in order.
EventsInOrder ==
  LET dealt   == Positions(events, "dealt")
      settled == Positions(events, "settlement")
      reveal  == Positions(events, "dealerReveal")
      done    == Positions(events, "dealerDone")
  IN  /\ Cardinality(dealt) = (IF JustDealt THEN 1 ELSE 0)
      /\ \A k \in dealt :
           /\ \E j \in StateChanges(events, "DEALING") : j < k
           /\ events[k].seen.state = "DEALING"
           /\ events[k].seen.cards = CardCounts(playerHands)
           /\ events[k].seen.dealer = Len(dealerHand[1].cards)
      /\ Cardinality(settled) = (IF state = "GAME_OVER" /\ ~error THEN 1 ELSE 0)
      /\ \A k \in settled :
           /\ \E j \in StateChanges(events, "SETTLEMENT") : j < k
           /\ \E m \in StateChanges(events, "GAME_OVER") : k < m
           /\ \A m \in StateChanges(events, "GAME_OVER") : k < m
           /\ events[k].seen.state = "SETTLEMENT"
           /\ events[k].seen.discards = 0
           /\ events[k].seen.cards = CardCounts(playerHands)
           /\ events[k].seen.dealer = Len(dealerHand[1].cards)
      /\ Cardinality(reveal) <= 1
      /\ Cardinality(done) <= 1
      /\ pc = "playDealerHand" => reveal = {Len(events)} /\ done = {}
      /\ \A k \in done :
           /\ \E j \in reveal : j < k
           /\ \E m \in settled : k < m
           /\ events[k].seen.dealer = Len(dealerHand[1].cards)
      /\ \A j \in reveal : pc = "idle" => \E k \in done : j < k
      /\ \A j \in reveal : \A m \in settled : j < m
      /\ \A k \in Positions(events, "playerBust") :
           /\ k > 1
           /\ events[k - 1].idx = events[k].idx
           /\ \/ events[k - 1].ev = "playerHit" /\ lastCall.op = "playerHit"
              \/ events[k - 1].ev = "playerDouble" /\ lastCall.op = "playerDoubleDown"
           /\ BestValue(playerHands[events[k].idx + 1].cards) > 21
           /\ events[k - 1].seen.cards = CardCounts(playerHands)

StableStates == {"BETTING", "PLAYER_TURN", "GAME_OVER"}

\* C27: on return from any public action, whether it succeeded or failed,
\* state is BETTING, PLAYER_TURN or GAME_OVER (DEALING, DEALER_TURN and
\* SETTLEMENT are seen by event listeners alone), and every round that
\* leaves PLAYER_TURN is in GAME_OVER when the action that made it leave
\* returns.
C27_StableOnReturn ==
  /\ [] ( /\ pc = "idle" => state \in StableStates
          /\ state \notin StableStates =>
               /\ events # <<>>
               /\ events[Len(events)].seen.state = state )
  /\ [][ /\ (state = "PLAYER_TURN" /\ state' # "PLAYER_TURN" /\ pc' = "idle")
           => state' = "GAME_OVER"
         /\ (pc = "playDealerHand" /\ pc' = "idle") => state' = "GAME_OVER" ]_vars

\* The number of cards of the dealer hand, none when there is no dealer hand.
DealerCardCount(dealer) == IF dealer = <<>> THEN 0 ELSE Len(dealer[1].cards)

\* C28: a settled hand is frozen.  Once a player hand reports isSettled()
\* (stood, doubled, busted or two-card 21) it receives no card, its bet does
\* not change and it does not become unsettled for the rest of the round: no
\* step but the start of the next round or a newRound changes it, a split of
\* another hand moving it one place up at most; the dealer hand receives
\* cards only in the initial deal and in playDealerHand.
C28_SettledHandFrozen ==
  [][ LET i       == activeHandIdx + 1
          splits  == Calls("playerSplit") /\ ~error'
          To(j)   == IF splits /\ j > i THEN j + 1 ELSE j
      IN  /\ ~RoundBoundary =>
               \A j \in 1..Len(playerHands) :
                 ReportsSettled(playerHands[j]) =>
                   /\ ~(splits /\ j = i)
                   /\ To(j) <= Len(playerHands')
                   /\ playerHands'[To(j)].cards = playerHands[j].cards
                   /\ playerHands'[To(j)].bet = playerHands[j].bet
                   /\ playerHands'[To(j)].settled = playerHands[j].settled
                   /\ ReportsSettled(playerHands'[To(j)])
          /\ DealerCardCount(dealerHand') > DealerCardCount(dealerHand)
               => (Calls("placeBets") /\ ~error') \/ DealerHitStep
          /\ (dealerHand # <<>> /\ dealerHand' # <<>> /\ ~RoundBoundary /\ ~DealerHitStep)
               => dealerHand'[1].cards = dealerHand[1].cards ]_vars

\* The first seat's pair was split while the second seat held a two-card 21
\* that no one marked settled: that hand is now the third, as it was dealt.
C28_Witness ==
  /\ lastCall.op = "playerSplit"
  /\ ~error
  /\ Len(playerHands) = 3
  /\ fromSplit = <<TRUE, TRUE, FALSE>>
  /\ TwoCard21(playerHands[3].cards)
  /\ ~playerHands[3].settled
  /\ state = "PLAYER_TURN"

====
